---- MODULE Spec2Model ----
(***************************************************************************)
(* Lyric synchronization engine of the karaoke player                      *)
(* (src/components/KaraokeScreen.tsx).                                     *)
(*                                                                         *)
(* Text is a sequence of one-character strings.  Time is fixed point:      *)
(* one unit is 1/TicksPerMs of a millisecond, so that the quotient         *)
(* duration / lines.length of the even division is exact for the inputs    *)
(* enumerated below.                                                       *)
(*                                                                         *)
(* React: a state setter, the render it causes and the effects whose       *)
(* dependencies changed (cleanup of the old instance, then the new         *)
(* instance) are one step; a frame callback runs between such steps.       *)
(*                                                                         *)
(* The audio element is the environment: it dispatches loadedmetadata      *)
(* once per source, 'play' when it leaves the paused state, 'pause' and    *)
(* 'ended' when it enters it, and loading another source resets it         *)
(* without dispatching 'pause'.  Its duration is NaN until the metadata    *)
(* is loaded and does not change afterwards.                               *)
(*                                                                         *)
(* The view of the component (the list that scrolls to the active line,    *)
(* the marquee line) is part of every step: scrollCalled and               *)
(* marqueeStarted say what the render after the step did.  An error        *)
(* thrown by the render unmounts the component.                            *)
(*                                                                         *)
(* findLyrics (src/services/geminiService.ts) is a call with its position  *)
(* and its locals; the model answering a request is the environment.       *)
(*                                                                         *)
(* App (src/App.tsx) and the setup screen hold the song, its lyrics and    *)
(* the calls of handleFindLyrics that await findLyrics; a state setter of  *)
(* a setup screen that is no longer mounted does nothing.                  *)
(*                                                                         *)
(* Fullscreen removes the controls, the <audio> element among them, and    *)
(* leaving it mounts a new element; the model numbers the elements and     *)
(* records on which one each effect's listeners are.                       *)
(*                                                                         *)
(* Specifications: Spec and FairSpec (the engine), ParseSpec (the parse    *)
(* effect on texts built from every kind of line), ViewSpec (the engine    *)
(* with the marquee switch), ServiceSpec (findLyrics), AppSpec (App with   *)
(* the setup screen and the karaoke screen), FullscreenSpec (the engine    *)
(* with the fullscreen switch).                                            *)
(***************************************************************************)
EXTENDS Integers, Sequences, FiniteSets, TLC

\* ---------------------------------------------------------------- time

\* Resolution of the fixed-point clock: units per millisecond.
TicksPerMs == 6

Millis(ms) == ms * TicksPerMs

Seconds(s) == Millis(s * 1000)

\* ---------------------------------------------------------------- text

Digits == {"0", "1", "2", "3", "4", "5", "6", "7", "8", "9"}

Whitespace == {" ", "\n"}

DigitVal(c) ==
    CASE c = "0" -> 0 [] c = "1" -> 1 [] c = "2" -> 2 [] c = "3" -> 3
      [] c = "4" -> 4 [] c = "5" -> 5 [] c = "6" -> 6 [] c = "7" -> 7
      [] c = "8" -> 8 [] c = "9" -> 9

\* parseInt(s, 10) of a string of decimal digits.
RECURSIVE ParseInt(_)
ParseInt(s) ==
    IF s = <<>> THEN 0
    ELSE 10 * ParseInt(SubSeq(s, 1, Len(s) - 1)) + DigitVal(s[Len(s)])

\* String.prototype.split('\n'): the empty string gives one empty line.
RECURSIVE SplitLines(_)
SplitLines(text) ==
    IF \A i \in 1..Len(text) : text[i] # "\n" THEN <<text>>
    ELSE LET k == CHOOSE i \in 1..Len(text) :
                      /\ text[i] = "\n"
                      /\ \A j \in 1..(i - 1) : text[j] # "\n"
         IN  <<SubSeq(text, 1, k - 1)>> \o SplitLines(SubSeq(text, k + 1, Len(text)))

\* String.prototype.trim().
RECURSIVE Trim(_)
Trim(s) ==
    IF s = <<>> THEN s
    ELSE IF s[1] \in Whitespace THEN Trim(Tail(s))
    ELSE IF s[Len(s)] \in Whitespace THEN Trim(SubSeq(s, 1, Len(s) - 1))
    ELSE s

\* Array.prototype.filter.
RECURSIVE FilterNonBlank(_)
FilterNonBlank(ls) ==
    IF ls = <<>> THEN <<>>
    ELSE IF Trim(Head(ls)) # <<>> THEN <<Head(ls)>> \o FilterNonBlank(Tail(ls))
    ELSE FilterNonBlank(Tail(ls))

\* lyrics.split('\n').filter(line => line.trim() !== '')
NonEmptyLines(text) == FilterNonBlank(SplitLines(text))

\* Length of the match of /\[(\d{2}):(\d{2})[.:](\d{2,3})\]/ that starts at
\* position i of the line, 0 when there is none.  \d{2,3} is greedy.
MatchLenAt(line, i) ==
    IF /\ i + 9 <= Len(line)
       /\ line[i] = "["
       /\ line[i + 1] \in Digits
       /\ line[i + 2] \in Digits
       /\ line[i + 3] = ":"
       /\ line[i + 4] \in Digits
       /\ line[i + 5] \in Digits
       /\ line[i + 6] \in {".", ":"}
       /\ line[i + 7] \in Digits
       /\ line[i + 8] \in Digits
    THEN IF /\ i + 10 <= Len(line)
            /\ line[i + 9] \in Digits
            /\ line[i + 10] = "]"
         THEN 11
         ELSE IF line[i + 9] = "]" THEN 10 ELSE 0
    ELSE 0

\* [...line.matchAll(lrcTimestampRegex)]: the matches from position i on,
\* left to right and not overlapping, each with its three capture groups.
RECURSIVE MatchAllFrom(_, _)
MatchAllFrom(line, i) ==
    IF i > Len(line) THEN <<>>
    ELSE LET n == MatchLenAt(line, i)
         IN  IF n = 0 THEN MatchAllFrom(line, i + 1)
             ELSE <<[g1 |-> SubSeq(line, i + 1, i + 2),
                     g2 |-> SubSeq(line, i + 4, i + 5),
                     g3 |-> SubSeq(line, i + 7, i + n - 2)]>>
                  \o MatchAllFrom(line, i + n)

MatchAll(line) == MatchAllFrom(line, 1)

\* line.replace(lrcTimestampRegex, '') from position i on.
RECURSIVE StripFrom(_, _)
StripFrom(line, i) ==
    IF i > Len(line) THEN <<>>
    ELSE LET n == MatchLenAt(line, i)
         IN  IF n = 0 THEN <<line[i]>> \o StripFrom(line, i + 1)
             ELSE StripFrom(line, i + n)

StripTimestamps(line) == StripFrom(line, 1)

\* Variant: the fraction always counts thousandths.
StartTimeOfThousandths(match) ==
    Seconds(ParseInt(match.g1) * 60 + ParseInt(match.g2)) + Millis(ParseInt(match.g3))

\* minutes * 60 + seconds + (fraction / 100 or fraction / 1000)
StartTimeOf(match) ==
    LET minutes == ParseInt(match.g1)
        seconds == ParseInt(match.g2)
        fraction == ParseInt(match.g3)
    IN  Seconds(minutes * 60 + seconds)
          + (IF Len(match.g3) = 2 THEN Millis(fraction * 10) ELSE Millis(fraction))

\* The inner loop: one TimedLine per timestamp of the line.
RECURSIVE LineEntries(_, _)
LineEntries(text, matches) ==
    IF matches = <<>> THEN <<>>
    ELSE <<[text |-> text, startTime |-> StartTimeOf(Head(matches))]>>
           \o LineEntries(text, Tail(matches))

\* The outer loop: parsedLrcLines in extraction order.
RECURSIVE ParsedLrcLines(_)
ParsedLrcLines(lines) ==
    IF lines = <<>> THEN <<>>
    ELSE LET timestamps == MatchAll(Head(lines))
         IN  (IF Len(timestamps) > 0
              THEN LineEntries(Trim(StripTimestamps(Head(lines))), timestamps)
              ELSE <<>>)
             \o ParsedLrcLines(Tail(lines))

IsLrc(lines) == \E i \in 1..Len(lines) : Len(MatchAll(lines[i])) > 0

\* Variant: e goes in front of the elements that compare equal.
RECURSIVE InsertSortedUnstable(_, _)
InsertSortedUnstable(sorted, e) ==
    IF sorted = <<>> THEN <<e>>
    ELSE IF Head(sorted).startTime - e.startTime >= 0 THEN <<e>> \o sorted
    ELSE <<Head(sorted)>> \o InsertSortedUnstable(Tail(sorted), e)

\* Insert e behind every element that does not compare greater (stable).
RECURSIVE InsertSorted(_, _)
InsertSorted(sorted, e) ==
    IF sorted = <<>> THEN <<e>>
    ELSE IF Head(sorted).startTime - e.startTime > 0 THEN <<e>> \o sorted
    ELSE <<Head(sorted)>> \o InsertSorted(Tail(sorted), e)

\* Variant: the sort is left out.
SortByStartTimeOmitted(s) == s

\* Array.prototype.sort((a, b) => a.startTime - b.startTime), stable.
RECURSIVE SortByStartTime(_)
SortByStartTime(s) ==
    IF s = <<>> THEN <<>>
    ELSE InsertSorted(SortByStartTime(SubSeq(s, 1, Len(s) - 1)), s[Len(s)])

\* ---------------------------------------------------------------- inputs

\* A bracketed timestamp, one element per character.
Stamp(m, s, sep, f) == <<"[">> \o m \o <<":">> \o s \o <<sep>> \o f \o <<"]">>

NL == <<"\n">>

\* The lyric texts the component is given.
EmptyText == <<>>

BlankText == <<" ", "\n", " ">>

PlainTwo == <<"A", "\n", "B">>

PlainThree == <<"A", "\n", " ", "\n", "B", " ", "\n", "C">>

\* The second line starts after the six seconds of the file are over.
LrcTwo ==
    Stamp(<<"0", "0">>, <<"0", "1">>, ".", <<"0", "0">>) \o <<" ", "A">> \o NL
      \o Stamp(<<"0", "0">>, <<"0", "6">>, ".", <<"2", "0">>) \o <<" ", "B">>

LrcUnordered ==
    Stamp(<<"0", "0">>, <<"0", "2">>, ".", <<"0", "0">>) \o <<"B">> \o NL
      \o <<"C">> \o NL
      \o Stamp(<<"0", "0">>, <<"0", "0">>, ":", <<"5", "0", "0">>) \o <<"A">>

LrcMulti ==
    Stamp(<<"0", "0">>, <<"0", "1">>, ".", <<"5", "0">>)
      \o Stamp(<<"0", "0">>, <<"0", "0">>, ".", <<"5", "0">>) \o <<"A">> \o NL
      \o Stamp(<<"0", "0">>, <<"0", "0">>, ":", <<"5", "0", "0">>) \o <<"B">>

Malformed == <<"[", "1", ":", "2", ".", "3", "]", "A">>

LyricsInputs ==
    {EmptyText, BlankText, PlainTwo, PlainThree, LrcTwo, LrcUnordered, LrcMulti,
     Malformed}

\* A text of two lines, the first of them timestamped.
HalfStampedText ==
    Stamp(<<"0", "0">>, <<"0", "1">>, ".", <<"0", "0">>) \o <<" ", "A">> \o NL
      \o <<"B">>

\* Two timestamped lines with a blank line between them and one after them.
SpacedLrcText ==
    Stamp(<<"0", "0">>, <<"0", "1">>, ".", <<"0", "0">>) \o <<" ", "A">> \o NL
      \o <<" ">> \o NL
      \o Stamp(<<"0", "0">>, <<"0", "2">>, ".", <<"0", "0">>) \o <<" ", "B">> \o NL

\* The audio sources and the duration each reports once its metadata is
\* loaded: a file of six seconds, and a stream without an end.
Urls == {"song", "stream"}

NaN == [kind |-> "NaN", v |-> 0]

Infinity == [kind |-> "Infinity", v |-> 0]

Num(n) == [kind |-> "num", v |-> n]

DurationOf(url) == IF url = "song" THEN Num(Seconds(6)) ELSE Infinity

\* Clock positions the transport reports: multiples of half a second, and
\* the position a tenth of a second before the end of the file.
MaxClock == 4

NearEnd == Seconds(6) - Millis(100)

ClockPositions == {Millis(500 * k) : k \in 0..MaxClock} \cup {NearEnd}

\* Positions of the timing-offset slider (min -5, max 5, step 0.1).
Offsets == {Millis(-300), Millis(0), Millis(500)}

\* Positions of the playback-rate slider (min 0.5, max 2, step 0.05), in percent.
PlaybackRates == {100, 150}

\* ---------------------------------------------------------------- state

VARIABLES
    mounted,             \* the component is mounted
    lyrics,              \* prop lyrics
    audioUrl,            \* prop audioUrl
    timedLyrics,         \* state timedLyrics
    currentLineIndex,    \* state currentLineIndex
    timingOffset,        \* state timingOffset
    playbackRate,        \* state playbackRate, in percent
    playbackState,       \* state playbackState
    animationFrameRef,   \* animationFrameRef.current, 0 for null
    frames,              \* frame callbacks requested and not yet run or cancelled
    loopListeners,       \* the play/pause/ended listeners of the animation effect
    metadataListeners,   \* the loadedmetadata listeners on the audio element
    parseCleanup,        \* the cleanup the last run of the parse effect returned
    audioReadyState,     \* audio.readyState: 0, or 1 once the metadata is loaded
    audioCurrentTime,    \* audio.currentTime
    audioPaused,         \* audio.paused
    audioPlaybackRate,   \* audio.playbackRate, in percent
    lastEvent,           \* the last transport event dispatched: none, play, pause, ended
    playOverPending,     \* history: the 'play' last dispatched, with no 'pause' or
                         \* 'ended' since, found a frame callback pending
    isMarqueeMode,       \* state isMarqueeMode
    scrollCalled,        \* the last step called container.scrollTo
    marqueeStarted,      \* the last step mounted the marquee line (its animation starts)
    apiKey,              \* API_KEY is configured
    findCall,            \* the call of findLyrics: its position and its locals
    screen,              \* App state screen
    setupInstance,       \* the SetupScreen instance shown: the number of its mount
    fileName,            \* SetupScreen state fileName
    songTitle,           \* App state songTitle
    songArtist,          \* App state songArtist
    isLoadingLyrics,     \* SetupScreen state isLoadingLyrics
    error,               \* SetupScreen state error
    calls,               \* the calls of handleFindLyrics that await findLyrics
    isFullscreen,        \* state isFullscreen
    audioElement,        \* the number of the <audio> element last mounted:
                         \* audioRef.current is it, or null while fullscreen
    loopListenersOn,     \* the element the animation effect's listeners are on
    stateListenersOn     \* the element the playback-state effect's listeners are on

viewVars == <<isMarqueeMode, scrollCalled, marqueeStarted>>

serviceVars == <<apiKey, findCall>>

appVars ==
    <<screen, setupInstance, fileName, songTitle, songArtist, isLoadingLyrics,
      error, calls>>

engineVars ==
    <<mounted, lyrics, audioUrl, timedLyrics, currentLineIndex, timingOffset,
      playbackRate, playbackState, animationFrameRef, frames, loopListeners,
      metadataListeners, parseCleanup, audioReadyState, audioCurrentTime,
      audioPaused, audioPlaybackRate, lastEvent, playOverPending>>

fullscreenVars == <<isFullscreen, audioElement, loopListenersOn, stateListenersOn>>

vars == <<engineVars, viewVars, serviceVars, appVars, fullscreenVars>>

componentVars ==
    <<timedLyrics, currentLineIndex, timingOffset, playbackRate, playbackState,
      animationFrameRef, frames, loopListeners, metadataListeners, parseCleanup>>

audioVars ==
    <<audioReadyState, audioCurrentTime, audioPaused, audioPlaybackRate,
      lastEvent, playOverPending>>

\* audio.duration: NaN until the metadata is loaded.
AudioDuration(readyState, url) == IF readyState >= 1 THEN DurationOf(url) ELSE NaN

IsFinite(d) == d.kind = "num"

\* ---------------------------------------------------------------- lyrics service

PrimaryModel == "gemini-2.5-flash"

FallbackModel == "gemini-2.5-pro"

\* response.text: a string, or undefined.
Text(chars) == [defined |-> TRUE, chars |-> chars]

Undefined == [defined |-> FALSE, chars |-> <<>>]

\* Variant: a line counts when it starts with a bracket.
IsLrcFormatBracket(text) ==
    IF ~text.defined \/ text.chars = <<>> THEN FALSE
    ELSE LET lines == SplitLines(Trim(text.chars))
             lrcLinesCount ==
                 Cardinality({i \in 1..Len(lines) :
                                 Trim(lines[i]) # <<>> /\ Trim(lines[i])[1] = "["})
         IN  Len(lines) > 0 /\ 2 * lrcLinesCount > Len(lines)

\* Variant: every text is taken for LRC.
IsLrcFormatAcceptsAll(text) == TRUE

\* Variant: half of the lines are enough.
IsLrcFormatAtLeastHalf(text) ==
    IF ~text.defined \/ text.chars = <<>> THEN FALSE
    ELSE LET lines == SplitLines(Trim(text.chars))
             lrcLinesCount ==
                 Cardinality({i \in 1..Len(lines) : MatchLenAt(Trim(lines[i]), 1) > 0})
         IN  Len(lines) > 0 /\ 2 * lrcLinesCount >= Len(lines)

\* isLrcFormat: more than half of the lines of the trimmed text start, after
\* their own trim, with a timestamp.
IsLrcFormat(text) ==
    IF ~text.defined \/ text.chars = <<>> THEN FALSE
    ELSE LET lines == SplitLines(Trim(text.chars))
             lrcLinesCount ==
                 Cardinality({i \in 1..Len(lines) : MatchLenAt(Trim(lines[i]), 1) > 0})
         IN  Len(lines) > 0 /\ 2 * lrcLinesCount > Len(lines)

\* The errors findLyrics throws: API_KEY is not configured; the fallback
\* response is not LRC either; the message of the catch block.
ErrorNoApiKey == "API_KEY is not configured"

ErrorFormat == "failed in the correct format, even after a retry ... or enter the lyrics manually"

ErrorFailed == "Failed to find lyrics ... Please try again or enter them manually"

\* The message tells the user to enter the lyrics manually.
TellsToEnterManually(message) == message \in {ErrorFormat, ErrorFailed}

\* The catch block: whatever was thrown inside try, it throws its own error.
CatchError(thrown) == ErrorFailed

\* Variant: an invalid response is always followed by the fallback request.
AfterResponseRetryAlways(requests, text) ==
    IF IsLrcFormat(text) THEN "return" ELSE "fallback"

\* What findLyrics does with the response to its last request.
AfterResponse(requests, text) ==
    IF IsLrcFormat(text) THEN "return"
    ELSE IF Len(requests) = 1 THEN "fallback"
    ELSE "throw"

\* No call of findLyrics is under way.
IdleCall ==
    [pc |-> "idle", requests |-> <<>>, initialText |-> Undefined,
     fallbackText |-> Undefined, result |-> Undefined, error |-> "none"]

\* findLyrics up to its first await: without API_KEY it throws, else it
\* sends the request to the primary model.
StartCall(key) ==
    IF ~key
    THEN [IdleCall EXCEPT !.pc = "thrown", !.error = ErrorNoApiKey]
    ELSE [IdleCall EXCEPT !.pc = "awaiting", !.requests = <<PrimaryModel>>]

\* The request of the call resolves with the text: the text is returned, or
\* the fallback model is asked, or the error thrown inside try is caught
\* and replaced.
CallResponded(call, text) ==
    LET first == Len(call.requests) = 1
        got == IF first THEN [call EXCEPT !.initialText = text]
               ELSE [call EXCEPT !.fallbackText = text]
        next == AfterResponse(call.requests, text)
    IN  IF next = "return"
        THEN [got EXCEPT !.pc = "returned", !.result = text]
        ELSE IF next = "fallback"
        THEN [got EXCEPT !.requests = Append(@, FallbackModel)]
        ELSE [got EXCEPT !.pc = "thrown", !.error = CatchError(ErrorFormat)]

\* The request of the call is rejected: the catch block throws its error.
CallRejected(call) ==
    [call EXCEPT !.pc = "thrown", !.error = CatchError("rejected")]

\* ---------------------------------------------------------------- parse effect

\* lines.map(text => ({ text, startTime: 0 }))
Placeholder(lines) == [i \in 1..Len(lines) |-> [text |-> lines[i], startTime |-> 0]]

\* Variant: the first line starts one slot late.
CalculateTimingsOffByOne(lines, duration) ==
    IF ~IsFinite(duration) \/ duration.v <= 0 THEN Placeholder(lines)
    ELSE LET timePerLine == duration.v \div Len(lines)
         IN  [i \in 1..Len(lines) |->
                 [text |-> lines[i], startTime |-> i * timePerLine]]

\* calculateTimings: what it passes to setTimedLyrics.
CalculateTimings(lines, duration) ==
    IF ~IsFinite(duration) \/ duration.v <= 0 THEN Placeholder(lines)
    ELSE LET timePerLine == duration.v \div Len(lines)
         IN  [i \in 1..Len(lines) |->
                 [text |-> lines[i], startTime |-> (i - 1) * timePerLine]]

\* The timestamped branch: parsedLrcLines after the sort.
LrcTimings(lines) == SortByStartTime(ParsedLrcLines(lines))

\* Variant: a line is taken for timestamped when it starts with a bracket.
ParseEffectBracketIsLrc(text, readyState, duration) ==
    LET lines == NonEmptyLines(text)
    IN  IF text = <<>>
        THEN [set |-> FALSE, timed |-> <<>>, listen |-> <<>>]
        ELSE IF Len(lines) = 0
        THEN [set |-> TRUE, timed |-> <<>>, listen |-> <<>>]
        ELSE IF \E i \in 1..Len(lines) : lines[i][1] = "["
        THEN [set |-> TRUE, timed |-> LrcTimings(lines), listen |-> <<>>]
        ELSE IF readyState >= 1
        THEN [set |-> TRUE, timed |-> CalculateTimings(lines, duration),
              listen |-> <<>>]
        ELSE [set |-> TRUE, timed |-> Placeholder(lines), listen |-> <<lines>>]

\* One run of the parse effect on the text, with the audio element mounted
\* and in the given ready state: whether setTimedLyrics is called and with
\* what, and the loadedmetadata listeners it adds (each is the closure's
\* lines).  The empty string is falsy: the effect returns at its guard.
ParseEffect(text, readyState, duration) ==
    LET lines == NonEmptyLines(text)
    IN  IF text = <<>>
        THEN [set |-> FALSE, timed |-> <<>>, listen |-> <<>>]
        ELSE IF Len(lines) = 0
        THEN [set |-> TRUE, timed |-> <<>>, listen |-> <<>>]
        ELSE IF IsLrc(lines) /\ Len(ParsedLrcLines(lines)) > 0
        THEN [set |-> TRUE, timed |-> LrcTimings(lines), listen |-> <<>>]
        ELSE IF readyState >= 1
        THEN [set |-> TRUE, timed |-> CalculateTimings(lines, duration),
              listen |-> <<>>]
        ELSE [set |-> TRUE, timed |-> Placeholder(lines), listen |-> <<lines>>]

\* removeEventListener: the first listener equal to l is removed.
RECURSIVE RemoveListener(_, _)
RemoveListener(ls, l) ==
    IF ls = <<>> THEN <<>>
    ELSE IF Head(ls) = l THEN Tail(ls)
    ELSE <<Head(ls)>> \o RemoveListener(Tail(ls), l)

\* Variant: the parse effect returns no cleanup.
RunParseCleanupOmitted(ls, cleanup) == ls

\* The cleanup of the parse effect: it removes the listener its run added.
RECURSIVE RunParseCleanup(_, _)
RunParseCleanup(ls, cleanup) ==
    IF cleanup = <<>> THEN ls
    ELSE RunParseCleanup(RemoveListener(ls, Head(cleanup)), Tail(cleanup))

\* ---------------------------------------------------------------- animation effect

NoListeners == [attached |-> FALSE, lines |-> <<>>, offset |-> 0]

\* The loop of animate: the greatest index whose start, moved by the offset,
\* is not after the clock; -1 when there is none.
RECURSIVE ScanFrom(_, _, _, _)
ScanFrom(lines, offset, currentTime, i) ==
    IF i < 1 THEN -1
    ELSE IF currentTime >= lines[i].startTime + offset THEN i - 1
    ELSE ScanFrom(lines, offset, currentTime, i - 1)

\* Variant: the scan runs forward and stops at the first line that has started.
RECURSIVE ScanForward(_, _, _, _)
ScanForward(lines, offset, currentTime, i) ==
    IF i > Len(lines) THEN -1
    ELSE IF currentTime >= lines[i].startTime + offset THEN i - 1
    ELSE ScanForward(lines, offset, currentTime, i + 1)

NewIndexFirstMatch(lines, offset, currentTime) == ScanForward(lines, offset, currentTime, 1)

NewIndex(lines, offset, currentTime) == ScanFrom(lines, offset, currentTime, Len(lines))

\* Variant: the index only moves forward.
IndexUpdaterForwardOnly(prevIndex, newIndex) ==
    IF prevIndex < newIndex THEN newIndex ELSE prevIndex

\* The updater given to setCurrentLineIndex.
IndexUpdater(prevIndex, newIndex) ==
    IF prevIndex # newIndex THEN newIndex ELSE prevIndex

\* requestAnimationFrame: a handle no pending callback and no holder has.
FreshFrameId(pending, ref) ==
    CHOOSE n \in 1..(Cardinality(pending) + 2) :
        /\ n # ref
        /\ \A f \in pending : f.id # n
        /\ \A m \in 1..(n - 1) : m = ref \/ \E f \in pending : f.id = m

\* Variant: cancelAnimationFrame cancels nothing.
CancelFrameNoOp(pending, ref) == pending

\* cancelAnimationFrame(ref), guarded by "if (animationFrameRef.current)".
CancelFrame(pending, ref) == {f \in pending : ref = 0 \/ f.id # ref}

\* Variant: the cleanup leaves the pending frame alone.
LoopCleanupFramesNoCancel(listeners, pending, ref) == pending

\* The cleanup of the animation effect, when the effect instance has one.
LoopCleanupFrames(listeners, pending, ref) ==
    IF listeners.attached THEN CancelFrame(pending, ref) ELSE pending

\* The body of the animation effect: no listeners for an empty sequence.
LoopSetup(lines, offset) ==
    IF Len(lines) = 0 THEN NoListeners
    ELSE [attached |-> TRUE, lines |-> lines, offset |-> offset]

\* ---------------------------------------------------------------- marquee

\* The duration given to the last line when the audio has none, in seconds.
DefaultMarqueeSeconds == 5

\* Reading a property of undefined: a TypeError.
Throws == [kind |-> "throws", v |-> 0]

\* getMarqueeDuration: timedLyrics[i] is undefined past the end, undefined
\* is falsy, and so are a duration of NaN and of 0.
GetMarqueeDuration(index, lines, duration) ==
    IF index < 0 \/ Len(lines) = 0 THEN Num(0)
    ELSE IF index + 2 <= Len(lines)
    THEN Num(lines[index + 2].startTime - lines[index + 1].startTime)
    ELSE IF duration.kind = "Infinity" \/ (duration.kind = "num" /\ duration.v # 0)
    THEN IF index + 1 > Len(lines) THEN Throws
         ELSE IF duration.kind = "Infinity" THEN Infinity
         ELSE Num(duration.v - lines[index + 1].startTime)
    ELSE Num(Seconds(DefaultMarqueeSeconds))

\* ---------------------------------------------------------------- view

\* Variant: the effect has no dependency array and runs after every render.
DepsChangedAlways(old, new) == TRUE

\* An effect runs again when one of its dependencies has changed.
DepsChanged(old, new) == old # new

\* The scroll effect (dependencies currentLineIndex and isMarqueeMode) calls
\* scrollTo: the list is rendered, and it has a child at the index.
ScrollEffect(oldIndex, oldMode, newIndex, newMode, length) ==
    /\ DepsChanged(<<oldIndex, oldMode>>, <<newIndex, newMode>>)
    /\ ~(newIndex < 0 \/ newMode)
    /\ newIndex < length

\* The render mounts the marquee line: it is rendered, and it was not
\* before or its key has changed.
MarqueeMounts(oldIndex, oldMode, newIndex, newMode, length) ==
    /\ newMode
    /\ newIndex >= 0
    /\ newIndex < length
    /\ ~(oldMode /\ oldIndex >= 0) \/ oldIndex # newIndex

\* What the render after a step does to the view, the mode being newMode.
RenderEffectsIn(newMode) ==
    /\ isMarqueeMode' = newMode
    /\ scrollCalled' =
           (mounted' /\ ScrollEffect(currentLineIndex, isMarqueeMode,
                                     currentLineIndex', newMode, Len(timedLyrics')))
    /\ marqueeStarted' =
           (mounted' /\ MarqueeMounts(currentLineIndex, isMarqueeMode,
                                      currentLineIndex', newMode, Len(timedLyrics')))

RenderEffects == RenderEffectsIn(isMarqueeMode)

\* The marquee is rendered for an index past the end of the sequence:
\* timedLyrics[currentLineIndex].text throws.
RenderThrows ==
    /\ mounted
    /\ isMarqueeMode
    /\ currentLineIndex >= 0
    /\ currentLineIndex >= Len(timedLyrics)

\* ---------------------------------------------------------------- actions

\* setTimedLyrics(lines) and the run of the animation effect it causes
\* (the array is a new one on every call, so the effect always runs again).
SetTimedLyrics(lines) ==
    /\ timedLyrics' = lines
    /\ frames' = LoopCleanupFrames(loopListeners, frames, animationFrameRef)
    /\ loopListeners' = LoopSetup(lines, timingOffset)

\* ParseEffect on each input, computed once.
ParseEffectOf ==
    [text \in LyricsInputs \cup {HalfStampedText, SpacedLrcText}, readyState \in {0, 1}, url \in Urls |->
        ParseEffect(text, readyState, AudioDuration(readyState, url))]

\* The parse effect runs again: the cleanup of its last run, then its body.
RerunParseEffect(text, readyState, url) ==
    LET r == ParseEffectOf[text, readyState, url]
    IN  /\ metadataListeners' =
               RunParseCleanup(metadataListeners, parseCleanup) \o r.listen
        /\ parseCleanup' = r.listen
        /\ IF r.set THEN SetTimedLyrics(r.timed)
           ELSE UNCHANGED <<timedLyrics, frames, loopListeners>>

\* The parent passes another lyrics text.
LyricsPropChanges(text) ==
    /\ mounted
    /\ text # lyrics
    /\ lyrics' = text
    /\ RerunParseEffect(text, audioReadyState, audioUrl)
    /\ UNCHANGED <<mounted, audioUrl, currentLineIndex, timingOffset, playbackRate,
                   playbackState, animationFrameRef, audioReadyState,
                   audioCurrentTime, audioPaused, audioPlaybackRate, lastEvent,
                   playOverPending>>
    /\ RenderEffects

\* The parent passes another lyrics text, and nothing else happens.
SetLyrics(text) ==
    /\ LyricsPropChanges(text)
    /\ UNCHANGED <<serviceVars, appVars, fullscreenVars>>

\* The parent passes another audio source: the element loads it (its ready
\* state, position, paused flag and rate are reset and no event is
\* dispatched), the playback-state effect and the parse effect run again.
SetAudioUrl(url) ==
    /\ mounted
    /\ url # audioUrl
    /\ audioUrl' = url
    /\ audioReadyState' = 0
    /\ audioCurrentTime' = 0
    /\ audioPaused' = TRUE
    /\ audioPlaybackRate' = 100
    /\ playbackState' = "idle"
    /\ RerunParseEffect(lyrics, 0, url)
    /\ UNCHANGED <<mounted, lyrics, currentLineIndex, timingOffset, playbackRate,
                   animationFrameRef, lastEvent, playOverPending>>
    /\ RenderEffects
    /\ UNCHANGED <<serviceVars, appVars, fullscreenVars>>

\* Variant: the listener is added without { once: true }.
ListenersKept(ls) == ls

\* The listeners left after a dispatch: each was added with { once: true }.
ListenersAfterDispatch(ls) == SubSeq(ls, 1, 0)

\* The audio element reports its metadata: the loadedmetadata listeners run
\* once each (calculateTimings with the lines of their closure) and are gone.
LoadedMetadata ==
    /\ audioReadyState = 0
    /\ audioReadyState' = 1
    /\ metadataListeners' = ListenersAfterDispatch(metadataListeners)
    /\ IF mounted /\ metadataListeners # <<>>
       THEN SetTimedLyrics(CalculateTimings(metadataListeners[Len(metadataListeners)],
                                            DurationOf(audioUrl)))
       ELSE UNCHANGED <<timedLyrics, frames, loopListeners>>
    /\ UNCHANGED <<mounted, lyrics, audioUrl, currentLineIndex, timingOffset,
                   playbackRate, playbackState, animationFrameRef, parseCleanup,
                   audioCurrentTime, audioPaused, audioPlaybackRate, lastEvent,
                   playOverPending>>
    /\ RenderEffects
    /\ UNCHANGED <<serviceVars, appVars, fullscreenVars>>

\* Variant: handlePlay requests a frame without cancelling the pending one.
HandlePlayFramesNoCancel(listeners, pending, ref) ==
    pending \cup {[id |-> FreshFrameId(pending, ref), lines |-> listeners.lines,
                   offset |-> listeners.offset]}

\* handlePlay of the animation effect: the frames pending after it, and the
\* handle it stores.
HandlePlayFrames(listeners, pending, ref) ==
    LET rest == CancelFrame(pending, ref)
    IN  rest \cup {[id |-> FreshFrameId(rest, ref), lines |-> listeners.lines,
                    offset |-> listeners.offset]}

HandlePlayRef(listeners, pending, ref) == FreshFrameId(CancelFrame(pending, ref), ref)

\* handlePauseOrEnd of the animation effect.
HandlePauseOrEndFrames(pending, ref) == CancelFrame(pending, ref)

\* The position at which playback of the source ends, when it has one.
AtEnd(url, t) == IsFinite(DurationOf(url)) /\ t = DurationOf(url).v

\* The 'play' event; playback that had ended starts over from position 0.
Play ==
    /\ mounted
    /\ audioPaused
    /\ audioPaused' = FALSE
    /\ audioCurrentTime' =
           IF audioReadyState >= 1 /\ AtEnd(audioUrl, audioCurrentTime) THEN 0
           ELSE audioCurrentTime
    /\ lastEvent' = "play"
    /\ playOverPending' = (frames # {})
    /\ playbackState' = "playing"
    /\ IF loopListeners.attached
       THEN /\ frames' = HandlePlayFrames(loopListeners, frames, animationFrameRef)
            /\ animationFrameRef' = HandlePlayRef(loopListeners, frames, animationFrameRef)
       ELSE UNCHANGED <<frames, animationFrameRef>>
    /\ UNCHANGED <<mounted, lyrics, audioUrl, timedLyrics, currentLineIndex,
                   timingOffset, playbackRate, loopListeners, metadataListeners,
                   parseCleanup, audioReadyState, audioPlaybackRate>>
    /\ RenderEffects
    /\ UNCHANGED <<serviceVars, appVars, fullscreenVars>>

\* Variant: every pause returns to 'idle'.
HandlePauseAlwaysIdle(state, currentTime) == "idle"

\* handlePause of the playback-state effect: the playback state after it.
HandlePause(state, currentTime) == IF currentTime = 0 THEN "idle" ELSE state

\* The 'pause' event.
Pause ==
    /\ mounted
    /\ ~audioPaused
    /\ audioPaused' = TRUE
    /\ lastEvent' = "pause"
    /\ playOverPending' = FALSE
    /\ playbackState' = HandlePause(playbackState, audioCurrentTime)
    /\ frames' = IF loopListeners.attached
                 THEN HandlePauseOrEndFrames(frames, animationFrameRef)
                 ELSE frames
    /\ UNCHANGED <<mounted, lyrics, audioUrl, timedLyrics, currentLineIndex,
                   timingOffset, playbackRate, animationFrameRef, loopListeners,
                   metadataListeners, parseCleanup, audioReadyState,
                   audioCurrentTime, audioPlaybackRate>>
    /\ RenderEffects
    /\ UNCHANGED <<serviceVars, appVars, fullscreenVars>>

\* Playback reaches the end of the source: the element pauses and dispatches
\* 'pause' (which away from position 0 leaves the playback state alone and
\* cancels the frame) and then 'ended' (handleEnded, handleSongEnd).
Ended ==
    /\ mounted
    /\ ~audioPaused
    /\ audioReadyState >= 1
    /\ audioPaused' = TRUE
    /\ audioCurrentTime' =
           IF IsFinite(DurationOf(audioUrl)) THEN DurationOf(audioUrl).v
           ELSE audioCurrentTime
    /\ lastEvent' = "ended"
    /\ playOverPending' = FALSE
    /\ playbackState' = "ended"
    /\ IF loopListeners.attached
       THEN /\ frames' = HandlePauseOrEndFrames(frames, animationFrameRef)
            /\ currentLineIndex' = -1
       ELSE UNCHANGED <<frames, currentLineIndex>>
    /\ UNCHANGED <<mounted, lyrics, audioUrl, timedLyrics, timingOffset,
                   playbackRate, animationFrameRef, loopListeners,
                   metadataListeners, parseCleanup, audioReadyState,
                   audioPlaybackRate>>
    /\ RenderEffects
    /\ UNCHANGED <<serviceVars, appVars, fullscreenVars>>

\* The clock moves: playback advances it, a seek moves it either way.
TimeUpdate(t) ==
    /\ mounted
    /\ audioReadyState >= 1
    /\ t # audioCurrentTime
    /\ audioCurrentTime' = t
    /\ UNCHANGED <<mounted, lyrics, audioUrl, audioReadyState, audioPaused,
                   audioPlaybackRate, lastEvent, playOverPending, componentVars>>
    /\ RenderEffects
    /\ UNCHANGED <<serviceVars, appVars, fullscreenVars>>

\* animate: a pending frame callback runs.
Tick(f) ==
    /\ f \in frames
    /\ LET rest == frames \ {f}
           id == FreshFrameId(rest, animationFrameRef)
       IN  /\ currentLineIndex' =
                  IF mounted
                  THEN IndexUpdater(currentLineIndex,
                                    NewIndex(f.lines, f.offset, audioCurrentTime))
                  ELSE currentLineIndex
           /\ frames' = rest \cup {[id |-> id, lines |-> f.lines, offset |-> f.offset]}
           /\ animationFrameRef' = id
    /\ UNCHANGED <<mounted, lyrics, audioUrl, timedLyrics, timingOffset,
                   playbackRate, playbackState, loopListeners, metadataListeners,
                   parseCleanup, audioReadyState, audioCurrentTime, audioPaused,
                   audioPlaybackRate, lastEvent,
                   playOverPending>>
    /\ RenderEffects
    /\ UNCHANGED <<serviceVars, appVars, fullscreenVars>>

\* The timing-offset slider: setTimingOffset and the run of the animation
\* effect it causes.
SetTimingOffset(o) ==
    /\ mounted
    /\ o # timingOffset
    /\ timingOffset' = o
    /\ frames' = LoopCleanupFrames(loopListeners, frames, animationFrameRef)
    /\ loopListeners' = LoopSetup(timedLyrics, o)
    /\ UNCHANGED <<mounted, lyrics, audioUrl, timedLyrics, currentLineIndex,
                   playbackRate, playbackState, animationFrameRef,
                   metadataListeners, parseCleanup, audioReadyState,
                   audioCurrentTime, audioPaused, audioPlaybackRate, lastEvent,
                   playOverPending>>
    /\ RenderEffects
    /\ UNCHANGED <<serviceVars, appVars, fullscreenVars>>

\* The playback-rate slider: setPlaybackRate and the effect that copies it
\* to the audio element.
SetPlaybackRate(r) ==
    /\ mounted
    /\ r # playbackRate
    /\ playbackRate' = r
    /\ audioPlaybackRate' = r
    /\ UNCHANGED <<mounted, lyrics, audioUrl, timedLyrics, currentLineIndex,
                   timingOffset, playbackState, animationFrameRef, frames,
                   loopListeners, metadataListeners, parseCleanup,
                   audioReadyState, audioCurrentTime, audioPaused, lastEvent,
                   playOverPending>>
    /\ RenderEffects
    /\ UNCHANGED <<serviceVars, appVars, fullscreenVars>>

\* The component is unmounted: every effect's cleanup runs.
ComponentUnmounts ==
    /\ mounted
    /\ mounted' = FALSE
    /\ metadataListeners' = RunParseCleanup(metadataListeners, parseCleanup)
    /\ parseCleanup' = <<>>
    /\ frames' = LoopCleanupFrames(loopListeners, frames, animationFrameRef)
    /\ loopListeners' = NoListeners
    /\ UNCHANGED <<lyrics, audioUrl, timedLyrics, currentLineIndex, timingOffset,
                   playbackRate, playbackState, animationFrameRef,
                   audioReadyState, audioCurrentTime, audioPaused,
                   audioPlaybackRate, lastEvent,
                   playOverPending>>
    /\ RenderEffects

\* The component is unmounted, and nothing else happens.
Unmount ==
    /\ ComponentUnmounts
    /\ UNCHANGED <<serviceVars, appVars, fullscreenVars>>

\* ---------------------------------------------------------------- specification

\* The component right after it is mounted with the given props: the parse
\* effect has run on an audio element that has nothing loaded yet.
MountedWith(text, url) ==
    LET r == ParseEffectOf[text, 0, url]
        first == IF r.set THEN r.timed ELSE <<>>
    IN  /\ mounted = TRUE
        /\ lyrics = text
        /\ audioUrl = url
        /\ timedLyrics = first
        /\ currentLineIndex = -1
        /\ timingOffset = Millis(-300)
        /\ playbackRate = 100
        /\ playbackState = "idle"
        /\ animationFrameRef = 0
        /\ frames = {}
        /\ loopListeners = LoopSetup(first, Millis(-300))
        /\ metadataListeners = r.listen
        /\ parseCleanup = r.listen
        /\ audioReadyState = 0
        /\ audioCurrentTime = 0
        /\ audioPaused = TRUE
        /\ audioPlaybackRate = 100
        /\ lastEvent = "none"
        /\ playOverPending = FALSE

\* The view right after the mount: the list, nothing scrolled.
ViewAtMount ==
    /\ isMarqueeMode = FALSE
    /\ scrollCalled = FALSE
    /\ marqueeStarted = FALSE

\* App state audioUrl while no file is chosen: null.
NoUrl == "null"

\* SetupScreen state error while nothing is shown: ''.
NoError == ""

\* The state of App and of the setup screen as they are created: no file,
\* no title, no call.  The specifications of the karaoke screen and of
\* findLyrics alone leave it there.
AppAtStart ==
    /\ screen = "setup"
    /\ setupInstance = 1
    /\ fileName = <<>>
    /\ songTitle = <<>>
    /\ songArtist = <<>>
    /\ isLoadingLyrics = FALSE
    /\ error = NoError
    /\ calls = {}

\* The karaoke screen as it is mounted: not fullscreen, its <audio> element
\* the first one, the listeners of both effects on it.  The specifications
\* other than the fullscreen one leave it there.
FullscreenAtStart ==
    /\ isFullscreen = FALSE
    /\ audioElement = 1
    /\ loopListenersOn = 1
    /\ stateListenersOn = 1

\* The lyrics service with no call under way.
ServiceIdle ==
    /\ apiKey = TRUE
    /\ findCall = IdleCall

Init ==
    /\ \E text \in LyricsInputs, url \in Urls : MountedWith(text, url)
    /\ ViewAtMount
    /\ ServiceIdle
    /\ AppAtStart
    /\ FullscreenAtStart

Next ==
    \/ \E text \in LyricsInputs : SetLyrics(text)
    \/ \E url \in Urls : SetAudioUrl(url)
    \/ LoadedMetadata
    \/ Play
    \/ Pause
    \/ Ended
    \/ \E t \in ClockPositions : TimeUpdate(t)
    \/ \E f \in frames : Tick(f)
    \/ \E o \in Offsets : SetTimingOffset(o)
    \/ \E r \in PlaybackRates : SetPlaybackRate(r)
    \/ Unmount

Spec == Init /\ [][Next]_vars

\* ---------------------------------------------------------------- parse specification

\* Lines the parse effect is given, each with the TimedLines it is to yield
\* in extraction order: the two lines of the prompt's example, a timestamp
\* with a colon and three digits, a line with two timestamps (the first
\* equal to the second example's), a bracket that is not a timestamp, a line
\* without bracket, a blank line.
ExampleLineA ==
    [raw |-> Stamp(<<"0", "0">>, <<"1", "5">>, ".", <<"3", "2">>) \o <<" ", "A">>,
     entries |-> <<[text |-> <<"A">>, startTime |-> Millis(15320)]>>]

ExampleLineB ==
    [raw |-> Stamp(<<"0", "0">>, <<"1", "7">>, ".", <<"8", "1">>) \o <<" ", "B">>,
     entries |-> <<[text |-> <<"B">>, startTime |-> Millis(17810)]>>]

ThousandthsLine ==
    [raw |-> Stamp(<<"0", "1">>, <<"0", "2">>, ":", <<"0", "0", "5">>) \o <<"C">>,
     entries |-> <<[text |-> <<"C">>, startTime |-> Millis(62005)]>>]

MultiCueLine ==
    [raw |-> Stamp(<<"0", "0">>, <<"1", "7">>, ".", <<"8", "1">>)
               \o Stamp(<<"0", "0">>, <<"0", "1">>, ":", <<"5", "0">>) \o <<"D">>,
     entries |-> <<[text |-> <<"D">>, startTime |-> Millis(17810)],
                   [text |-> <<"D">>, startTime |-> Millis(1500)]>>]

MalformedLine == [raw |-> <<"[", "1", ":", "2", ".", "3", "]", "E">>, entries |-> <<>>]

PlainLine == [raw |-> <<"F">>, entries |-> <<>>]

BlankLine == [raw |-> <<" ">>, entries |-> <<>>]

ParseLineKinds ==
    {ExampleLineA, ExampleLineB, ThousandthsLine, MultiCueLine, MalformedLine,
     PlainLine, BlankLine}

\* The longest text given, in lines.
MaxParseLines == 3

KindSeqs == UNION {[1..n -> ParseLineKinds] : n \in 1..MaxParseLines}

\* The lines joined by '\n'.
RECURSIVE TextOfKinds(_)
TextOfKinds(ks) ==
    IF Len(ks) = 1 THEN ks[1].raw
    ELSE TextOfKinds(SubSeq(ks, 1, Len(ks) - 1)) \o NL \o ks[Len(ks)].raw

ParseInputs == {TextOfKinds(ks) : ks \in KindSeqs}

\* The component before it is mounted with the given props.
NotYetMounted(text, url) ==
    /\ mounted = FALSE
    /\ lyrics = text
    /\ audioUrl = url
    /\ timedLyrics = <<>>
    /\ currentLineIndex = -1
    /\ timingOffset = Millis(-300)
    /\ playbackRate = 100
    /\ playbackState = "idle"
    /\ animationFrameRef = 0
    /\ frames = {}
    /\ loopListeners = NoListeners
    /\ metadataListeners = <<>>
    /\ parseCleanup = <<>>
    /\ audioReadyState = 0
    /\ audioCurrentTime = 0
    /\ audioPaused = TRUE
    /\ audioPlaybackRate = 100
    /\ lastEvent = "none"
    /\ playOverPending = FALSE

ParseInit ==
    /\ \E text \in ParseInputs, url \in Urls : NotYetMounted(text, url)
    /\ ViewAtMount
    /\ ServiceIdle
    /\ AppAtStart
    /\ FullscreenAtStart

\* The component is mounted: the first run of the parse effect and of the
\* animation effect, on an audio element that has nothing loaded yet.
ComponentMounts ==
    /\ ~mounted
    /\ lastEvent = "none"
    /\ audioReadyState = 0
    /\ mounted' = TRUE
    /\ LET r == ParseEffect(lyrics, 0, NaN)
           first == IF r.set THEN r.timed ELSE <<>>
       IN  /\ timedLyrics' = first
           /\ loopListeners' = LoopSetup(first, timingOffset)
           /\ metadataListeners' = r.listen
           /\ parseCleanup' = r.listen
    /\ UNCHANGED <<lyrics, audioUrl, currentLineIndex, timingOffset, playbackRate,
                   playbackState, animationFrameRef, frames, audioReadyState,
                   audioCurrentTime, audioPaused, audioPlaybackRate, lastEvent,
                   playOverPending>>
    /\ RenderEffects

\* The component is mounted, and nothing else happens.
Mount ==
    /\ ComponentMounts
    /\ UNCHANGED <<serviceVars, appVars, fullscreenVars>>

ParseNext ==
    \/ Mount
    \/ mounted /\ LoadedMetadata

ParseSpec == ParseInit /\ [][ParseNext]_vars

\* ---------------------------------------------------------------- view specification

\* The lyrics the view is given: two lines, three lines, no line.
ViewLyrics == {PlainTwo, PlainThree, BlankText}

\* The marquee switch: setIsMarqueeMode(!isMarqueeMode).
ToggleMarqueeMode ==
    /\ mounted
    /\ UNCHANGED engineVars
    /\ RenderEffectsIn(~isMarqueeMode)
    /\ UNCHANGED <<serviceVars, appVars, fullscreenVars>>

\* The render has thrown and no error boundary catches it: React unmounts
\* the component.
Crash == RenderThrows /\ Unmount

ViewInit ==
    /\ \E text \in ViewLyrics : MountedWith(text, "song")
    /\ ViewAtMount
    /\ ServiceIdle
    /\ AppAtStart
    /\ FullscreenAtStart

ViewNext ==
    \/ Crash
    \/ ~RenderThrows /\ \E text \in ViewLyrics : SetLyrics(text)
    \/ ~RenderThrows /\ LoadedMetadata
    \/ ~RenderThrows /\ Play
    \/ ~RenderThrows /\ Pause
    \/ ~RenderThrows /\ Ended
    \/ ~RenderThrows /\ \E t \in ClockPositions : TimeUpdate(t)
    \/ ~RenderThrows /\ \E f \in frames : Tick(f)
    \/ ~RenderThrows /\ ToggleMarqueeMode

ViewSpec == ViewInit /\ [][ViewNext]_vars

\* ---------------------------------------------------------------- service specification

\* The longest response text, in lines.
MaxResponseLines == 2

\* Two timestamped lines with a blank line between them.
BlankSeparatedText == TextOfKinds(<<ExampleLineA, BlankLine, ExampleLineB>>)

\* The texts a request resolves with.
ResponseTexts ==
    {Undefined, Text(<<>>), Text(BlankSeparatedText)}
      \cup {Text(TextOfKinds(ks)) :
               ks \in UNION {[1..n -> ParseLineKinds] : n \in 1..MaxResponseLines}}

\* findLyrics is called: without API_KEY it throws, else it sends the
\* request to the primary model.
FindLyrics ==
    /\ findCall.pc = "idle"
    /\ findCall' = StartCall(apiKey)
    /\ UNCHANGED <<apiKey, engineVars, viewVars, appVars, fullscreenVars>>

\* The request resolves: the text is returned, or the fallback model is
\* asked, or the error thrown inside try is caught and replaced.
Responds(text) ==
    /\ findCall.pc = "awaiting"
    /\ findCall' = CallResponded(findCall, text)
    /\ UNCHANGED <<apiKey, engineVars, viewVars, appVars, fullscreenVars>>

\* The request is rejected: the catch block throws its error.
Rejects ==
    /\ findCall.pc = "awaiting"
    /\ findCall' = CallRejected(findCall)
    /\ UNCHANGED <<apiKey, engineVars, viewVars, appVars, fullscreenVars>>

\* The setup screen is shown (the karaoke screen is not mounted) and no call
\* is under way.
ServiceInit ==
    /\ NotYetMounted(EmptyText, "song")
    /\ ViewAtMount
    /\ apiKey \in BOOLEAN
    /\ findCall = IdleCall
    /\ AppAtStart
    /\ FullscreenAtStart

ServiceNext ==
    \/ FindLyrics
    \/ \E text \in ResponseTexts : Responds(text)
    \/ Rejects

ServiceSpec == ServiceInit /\ [][ServiceNext]_vars

\* ---------------------------------------------------------------- app specification

ErrorNoTitle == "Please enter a song title to find lyrics."

\* The files the user chooses, by name: 'A-T.m', 'U.m' and '.m'.
AudioFiles == {<<"A", "-", "T", ".", "m">>, <<"U", ".", "m">>, <<".", "m">>}

\* URL.createObjectURL(file): the first file is the six-second song.
UrlOf(file) == IF file = <<"A", "-", "T", ".", "m">> THEN "song" ELSE "stream"

\* name.slice(0, name.lastIndexOf('.')): without a dot lastIndexOf gives -1
\* and slice drops the last character.
NameWithoutExt(name) ==
    LET dots == {i \in 1..Len(name) : name[i] = "."}
    IN  IF dots = {} THEN SubSeq(name, 1, Len(name) - 1)
        ELSE SubSeq(name, 1, (CHOOSE k \in dots : \A i \in dots : i <= k) - 1)

\* String.prototype.split(c).
RECURSIVE SplitOn(_, _)
SplitOn(text, c) ==
    IF \A i \in 1..Len(text) : text[i] # c THEN <<text>>
    ELSE LET k == CHOOSE i \in 1..Len(text) :
                      /\ text[i] = c
                      /\ \A j \in 1..(i - 1) : text[j] # c
         IN  <<SubSeq(text, 1, k - 1)>> \o SplitOn(SubSeq(text, k + 1, Len(text)), c)

\* Array.prototype.join(c).
RECURSIVE Join(_, _)
Join(parts, c) ==
    IF parts = <<>> THEN <<>>
    ELSE IF Len(parts) = 1 THEN parts[1]
    ELSE parts[1] \o <<c>> \o Join(Tail(parts), c)

\* parseFileName: the artist and the title it sets.
ParseFileName(name) ==
    LET nameWithoutExt == NameWithoutExt(name)
        split == SplitOn(nameWithoutExt, "-")
        parts == [i \in 1..Len(split) |-> Trim(split[i])]
    IN  IF Len(parts) >= 2
        THEN [artist |-> parts[1], title |-> Trim(Join(Tail(parts), "-"))]
        ELSE [artist |-> <<>>, title |-> nameWithoutExt]

\* The titles and the lyrics the user types.
TitleInputs == {<<>>, <<"T">>}

TypedLyrics == {EmptyText, PlainTwo}

\* The texts a request of the setup screen resolves with.
SetupResponses ==
    {Text(EmptyText), Text(PlainTwo), Text(HalfStampedText), Text(LrcTwo),
     Text(SpacedLrcText)}

\* The setup screen is mounted at most this many times.
MaxVisits == 2

\* isReady
IsReady(name, text) == name # <<>> /\ text # <<>>

\* The condition of handleStartKaraoke: audioUrl && lyrics.
CanStart(url, text) == url # NoUrl /\ text # <<>>

\* setLyrics(text): App renders again, and the karaoke screen, when it is
\* mounted, gets another lyrics prop.
StoreLyrics(text) ==
    IF mounted /\ text # lyrics THEN LyricsPropChanges(text)
    ELSE /\ lyrics' = text
         /\ UNCHANGED <<mounted, audioUrl, componentVars, audioVars>>
         /\ RenderEffects

\* setLyrics(fetchedLyrics)
LyricsAfterSuccess(result) == result.chars

\* Variant: the catch block clears the lyrics.
LyricsAfterFailureCleared(text) == EmptyText

\* The catch block and the finally block call no setLyrics.
LyricsAfterFailure(text) == text

\* The state setters of a SetupScreen instance act while it is mounted.
OwnerShown(c) == screen = "setup" /\ c.owner = setupInstance

\* handleFileChange with a file: setAudioFile (the effect of App derives
\* audioUrl), setFileName, parseFileName.
HandleFileChange(file) ==
    /\ screen = "setup"
    /\ file # fileName
    /\ audioUrl' = UrlOf(file)
    /\ fileName' = file
    /\ lyrics' = EmptyText
    /\ error' = NoError
    /\ songArtist' = ParseFileName(file).artist
    /\ songTitle' = ParseFileName(file).title
    /\ UNCHANGED <<mounted, componentVars, audioVars, viewVars, serviceVars, fullscreenVars,
                   screen, setupInstance, isLoadingLyrics, calls>>

\* The title field is edited.
TypeTitle(title) ==
    /\ screen = "setup"
    /\ fileName # <<>>
    /\ title # songTitle
    /\ songTitle' = title
    /\ UNCHANGED <<engineVars, viewVars, serviceVars, fullscreenVars, screen, setupInstance,
                   fileName, songArtist, isLoadingLyrics, error, calls>>

\* The lyrics textarea is edited.
TypeLyrics(text) ==
    /\ screen = "setup"
    /\ fileName # <<>>
    /\ text # lyrics
    /\ StoreLyrics(text)
    /\ UNCHANGED <<serviceVars, appVars, fullscreenVars>>

\* handleFindLyrics up to its await.  Without API_KEY findLyrics rejects at
\* once and the catch and finally blocks run in the microtask that follows.
HandleFindLyrics ==
    /\ IF songTitle = <<>>
       THEN /\ error' = ErrorNoTitle
            /\ UNCHANGED <<isLoadingLyrics, calls>>
       ELSE LET call == StartCall(apiKey)
            IN  IF call.pc = "thrown"
                THEN /\ error' = call.error
                     /\ isLoadingLyrics' = FALSE
                     /\ UNCHANGED calls
                ELSE /\ error' = NoError
                     /\ isLoadingLyrics' = TRUE
                     /\ calls' = calls \cup
                           {[owner |-> setupInstance, file |-> fileName,
                             title |-> songTitle, artist |-> songArtist,
                             call |-> call]}
    /\ UNCHANGED <<engineVars, viewVars, serviceVars, fullscreenVars, screen, setupInstance,
                   fileName, songTitle, songArtist>>

\* The button 'Find Lyrics with AI', rendered once a file is chosen and
\* disabled while isLoadingLyrics || !songTitle.
ClickFindLyrics ==
    /\ screen = "setup"
    /\ fileName # <<>>
    /\ ~(isLoadingLyrics \/ songTitle = <<>>)
    /\ HandleFindLyrics

\* handleFindLyrics after its await, findLyrics having come to after:
\* it awaits its fallback request, or has returned, or has thrown.
CallSettles(c, after) ==
    /\ c \in calls
    /\ IF after.pc = "awaiting"
       THEN /\ calls' = (calls \ {c}) \cup {[c EXCEPT !.call = after]}
            /\ UNCHANGED <<engineVars, viewVars, isLoadingLyrics, error>>
       ELSE /\ calls' = calls \ {c}
            /\ StoreLyrics(IF after.pc = "returned"
                           THEN LyricsAfterSuccess(after.result)
                           ELSE LyricsAfterFailure(lyrics))
            /\ error' = IF after.pc = "thrown" /\ OwnerShown(c)
                        THEN after.error ELSE error
            /\ isLoadingLyrics' = IF OwnerShown(c) THEN FALSE ELSE isLoadingLyrics
    /\ UNCHANGED <<serviceVars, fullscreenVars, screen, setupInstance, fileName, songTitle,
                   songArtist>>

\* The request of a call resolves with the text.
CallResponds(c, text) == CallSettles(c, CallResponded(c.call, text))

\* The request of a call is rejected.
CallRejects(c) == CallSettles(c, CallRejected(c.call))

\* handleStartKaraoke: the karaoke screen is rendered, or the alert is shown.
HandleStartKaraoke ==
    IF CanStart(audioUrl, lyrics)
    THEN /\ screen' = "karaoke"
         /\ ComponentMounts
         /\ UNCHANGED <<serviceVars, fullscreenVars, setupInstance, fileName, songTitle,
                        songArtist, isLoadingLyrics, error, calls>>
    ELSE UNCHANGED vars

\* The button 'Start Karaoke!', disabled while !isReady.
ClickStartKaraoke ==
    /\ screen = "setup"
    /\ IsReady(fileName, lyrics)
    /\ HandleStartKaraoke

\* handleGoBack: the karaoke screen is unmounted and a new instance of the
\* setup screen is mounted, with the initial values of its state.
HandleGoBack ==
    /\ screen = "karaoke"
    /\ setupInstance < MaxVisits
    /\ screen' = "setup"
    /\ ComponentUnmounts
    /\ setupInstance' = setupInstance + 1
    /\ fileName' = <<>>
    /\ isLoadingLyrics' = FALSE
    /\ error' = NoError
    /\ UNCHANGED <<serviceVars, fullscreenVars, songTitle, songArtist, calls>>

\* App as it is created: the setup screen, no file, no lyrics.
AppInit ==
    /\ NotYetMounted(EmptyText, NoUrl)
    /\ ViewAtMount
    /\ apiKey \in BOOLEAN
    /\ findCall = IdleCall
    /\ AppAtStart
    /\ FullscreenAtStart

AppNext ==
    \/ \E file \in AudioFiles : HandleFileChange(file)
    \/ \E title \in TitleInputs : TypeTitle(title)
    \/ \E text \in TypedLyrics : TypeLyrics(text)
    \/ ClickFindLyrics
    \/ \E c \in calls, text \in SetupResponses : CallResponds(c, text)
    \/ \E c \in calls : CallRejects(c)
    \/ ClickStartKaraoke
    \/ HandleGoBack

AppSpec == AppInit /\ [][AppNext]_vars

\* ---------------------------------------------------------------- fullscreen specification

\* The <audio> elements one mount of the screen creates at most, the first
\* included.
MaxElements == 2

\* The animation effect's listeners are on the element that is mounted.
LoopHears == loopListeners.attached /\ loopListenersOn = audioElement

\* The playback-state effect's listeners are on the element that is mounted.
StateHears == stateListenersOn = audioElement

\* The 'play' event of the mounted element: the listeners on it run.
PlayOnElement ==
    /\ mounted
    /\ ~isFullscreen
    /\ audioPaused
    /\ audioPaused' = FALSE
    /\ audioCurrentTime' =
           IF audioReadyState >= 1 /\ AtEnd(audioUrl, audioCurrentTime) THEN 0
           ELSE audioCurrentTime
    /\ lastEvent' = "play"
    /\ playOverPending' = (frames # {})
    /\ playbackState' = IF StateHears THEN "playing" ELSE playbackState
    /\ IF LoopHears
       THEN /\ frames' = HandlePlayFrames(loopListeners, frames, animationFrameRef)
            /\ animationFrameRef' = HandlePlayRef(loopListeners, frames, animationFrameRef)
       ELSE UNCHANGED <<frames, animationFrameRef>>
    /\ UNCHANGED <<mounted, lyrics, audioUrl, timedLyrics, currentLineIndex,
                   timingOffset, playbackRate, loopListeners, metadataListeners,
                   parseCleanup, audioReadyState, audioPlaybackRate>>
    /\ RenderEffects
    /\ UNCHANGED <<serviceVars, appVars, fullscreenVars>>

\* What the 'pause' event of the element the component last mounted does:
\* the listeners on that element run.
PauseDispatched ==
    /\ lastEvent' = "pause"
    /\ playOverPending' = FALSE
    /\ playbackState' =
           IF StateHears THEN HandlePause(playbackState, audioCurrentTime)
           ELSE playbackState
    /\ frames' = IF LoopHears THEN HandlePauseOrEndFrames(frames, animationFrameRef)
                 ELSE frames

\* The 'pause' event of the mounted element.
PauseOnElement ==
    /\ mounted
    /\ ~isFullscreen
    /\ ~audioPaused
    /\ audioPaused' = TRUE
    /\ PauseDispatched
    /\ UNCHANGED <<mounted, lyrics, audioUrl, timedLyrics, currentLineIndex,
                   timingOffset, playbackRate, animationFrameRef, loopListeners,
                   metadataListeners, parseCleanup, audioReadyState,
                   audioCurrentTime, audioPlaybackRate>>
    /\ RenderEffects
    /\ UNCHANGED <<serviceVars, appVars, fullscreenVars>>

\* The fullscreen button, then fullscreenchange with a fullscreen element:
\* setIsFullscreen(true), and the render leaves the controls out, the
\* <audio> element among them.  No dependency of the playback-state effect
\* or of the animation effect has changed, so neither runs its cleanup: the
\* listeners stay on the element removed.  The user agent pauses an element
\* that is removed from the document, and that 'pause' reaches them.
EnterFullscreen ==
    /\ mounted
    /\ ~isFullscreen
    /\ isFullscreen' = TRUE
    /\ audioPaused' = TRUE
    /\ IF audioPaused
       THEN UNCHANGED <<lastEvent, playOverPending, playbackState, frames>>
       ELSE PauseDispatched
    /\ UNCHANGED <<mounted, lyrics, audioUrl, timedLyrics, currentLineIndex,
                   timingOffset, playbackRate, animationFrameRef, loopListeners,
                   metadataListeners, parseCleanup, audioReadyState,
                   audioCurrentTime, audioPlaybackRate>>
    /\ RenderEffects
    /\ UNCHANGED <<audioElement, loopListenersOn, stateListenersOn>>
    /\ UNCHANGED <<serviceVars, appVars>>

\* Escape, then fullscreenchange with no fullscreen element:
\* setIsFullscreen(false), and the render mounts the controls again with a
\* new <audio> element, which loads the source from the start.  Again no
\* effect of the component that adds listeners runs.
LeaveFullscreen ==
    /\ mounted
    /\ isFullscreen
    /\ audioElement < MaxElements
    /\ isFullscreen' = FALSE
    /\ audioElement' = audioElement + 1
    /\ audioReadyState' = 0
    /\ audioCurrentTime' = 0
    /\ audioPaused' = TRUE
    /\ audioPlaybackRate' = 100
    /\ UNCHANGED <<mounted, lyrics, audioUrl, lastEvent, playOverPending,
                   componentVars>>
    /\ RenderEffects
    /\ UNCHANGED <<loopListenersOn, stateListenersOn>>
    /\ UNCHANGED <<serviceVars, appVars>>

\* The first element reports its metadata while it is mounted: the
\* loadedmetadata listeners of the parse effect are on it.
MetadataOnFirstElement ==
    /\ ~isFullscreen
    /\ audioElement = 1
    /\ LoadedMetadata

\* A later element reports its metadata: no listener is on it.
MetadataOnLaterElement ==
    /\ mounted
    /\ ~isFullscreen
    /\ audioElement > 1
    /\ audioReadyState = 0
    /\ audioReadyState' = 1
    /\ UNCHANGED <<mounted, lyrics, audioUrl, audioCurrentTime, audioPaused,
                   audioPlaybackRate, lastEvent, playOverPending, componentVars>>
    /\ RenderEffects
    /\ UNCHANGED <<serviceVars, appVars, fullscreenVars>>

\* The clock of the mounted element moves.
TimeUpdateOnElement(t) ==
    /\ ~isFullscreen
    /\ TimeUpdate(t)

\* The timing-offset slider (rendered with the controls): setTimingOffset,
\* and the animation effect runs again: its cleanup takes the listeners off
\* the element they are on, its body adds them to audioRef.current.
OffsetOnElement(o) ==
    /\ mounted
    /\ ~isFullscreen
    /\ o # timingOffset
    /\ timingOffset' = o
    /\ frames' = LoopCleanupFrames(loopListeners, frames, animationFrameRef)
    /\ loopListeners' = LoopSetup(timedLyrics, o)
    /\ loopListenersOn' = audioElement
    /\ UNCHANGED <<mounted, lyrics, audioUrl, timedLyrics, currentLineIndex,
                   playbackRate, playbackState, animationFrameRef,
                   metadataListeners, parseCleanup, audioReadyState,
                   audioCurrentTime, audioPaused, audioPlaybackRate, lastEvent,
                   playOverPending>>
    /\ RenderEffects
    /\ UNCHANGED <<isFullscreen, audioElement, stateListenersOn>>
    /\ UNCHANGED <<serviceVars, appVars>>

FullscreenInit ==
    /\ \E text \in LyricsInputs, url \in Urls : MountedWith(text, url)
    /\ ViewAtMount
    /\ ServiceIdle
    /\ AppAtStart
    /\ FullscreenAtStart

FullscreenNext ==
    \/ MetadataOnFirstElement
    \/ MetadataOnLaterElement
    \/ PlayOnElement
    \/ PauseOnElement
    \/ \E t \in ClockPositions : TimeUpdateOnElement(t)
    \/ \E f \in frames : Tick(f)
    \/ \E o \in Offsets : OffsetOnElement(o)
    \/ EnterFullscreen
    \/ LeaveFullscreen

FullscreenSpec == FullscreenInit /\ [][FullscreenNext]_vars

\* ---------------------------------------------------------------- properties

\* The non-empty lines of each input, computed once.
LinesOf == [text \in LyricsInputs |-> NonEmptyLines(text)]

\* The input has at least one line and no timestamp anywhere.
IsPlain(text) == Len(LinesOf[text]) > 0 /\ ~IsLrc(LinesOf[text])

PlainOf == [text \in LyricsInputs |-> IsPlain(text)]

\* The audio duration is known, finite and positive.
DurationKnown ==
    /\ audioReadyState >= 1
    /\ IsFinite(DurationOf(audioUrl))
    /\ DurationOf(audioUrl).v > 0

\* The greatest index whose offset-adjusted start is not after t (counted
\* from 0), -1 when there is none.
GreatestActive(lines, offset, t) ==
    LET started == {i \in 1..Len(lines) : lines[i].startTime + offset <= t}
    IN  IF started = {} THEN -1
        ELSE (CHOOSE i \in started : \A j \in started : j <= i) - 1

\* C1: every tick leaves activeIndex at the greatest index i with
\* startTime[i] + offset <= t for the current sequence, offset and clock,
\* and at -1 when there is none (inclusive bound, highest index among ties).
C1_TickResolvesGreatestIndex ==
    [][(\E f \in frames : Tick(f))
          => currentLineIndex' =
                 GreatestActive(timedLyrics, timingOffset, audioCurrentTime)]_vars

\* C1 witness: a tick has resolved the second of two lines that share a
\* start time, at the clock position equal to their offset-adjusted start.
C1_Witness ==
    /\ frames # {}
    /\ Len(timedLyrics) >= 3
    /\ timedLyrics[1].startTime = timedLyrics[2].startTime
    /\ timedLyrics[2].startTime < timedLyrics[3].startTime
    /\ audioCurrentTime = timedLyrics[2].startTime + timingOffset
    /\ currentLineIndex = 1

\* C2: a change of the offset or of the rate while frame callbacks are
\* pending leaves a callback pending, and that callback uses the new offset.
C2_SettingChangeKeepsLoop ==
    [][(/\ frames # {}
        /\ \/ \E o \in Offsets : SetTimingOffset(o)
           \/ \E r \in PlaybackRates : SetPlaybackRate(r))
          => /\ frames' # {}
             /\ \A f \in frames' : f.offset = timingOffset']_vars

\* C3: at most one frame callback of the synchronization loop is pending.
C3_AtMostOneFramePending == Cardinality(frames) <= 1

\* C3 witness: a 'play' arrived while a callback was pending, and one
\* callback is pending after it.
C3_Witness ==
    /\ lastEvent = "play"
    /\ playOverPending
    /\ Cardinality(frames) = 1

C5_SequenceSorted ==
    \A i, j \in 1..Len(timedLyrics) :
        i < j => timedLyrics[i].startTime <= timedLyrics[j].startTime

\* C5 witness: the sequence parsed from timestamps given out of order.
C5_Witness ==
    /\ lyrics = LrcUnordered
    /\ Len(timedLyrics) = 2
    /\ timedLyrics[1].text = <<"A">>
    /\ timedLyrics[2].text = <<"B">>
    /\ timedLyrics[1].startTime < timedLyrics[2].startTime

\* C6: activeIndex is -1 or an index of the current sequence.
C6_IndexInRange ==
    \/ currentLineIndex = -1
    \/ 0 <= currentLineIndex /\ currentLineIndex < Len(timedLyrics)

C8_EvenDivision ==
    mounted /\ PlainOf[lyrics] /\ DurationKnown
        => LET lines == LinesOf[lyrics]
               n == Len(lines)
               d == DurationOf(audioUrl).v
           IN  /\ Len(timedLyrics) = n
               /\ \A i \in 1..n :
                      /\ timedLyrics[i].text = lines[i]
                      /\ timedLyrics[i].startTime * n = (i - 1) * d

\* C8 witness: three lines over six seconds, the third starting at four.
C8_Witness ==
    /\ lyrics = PlainThree
    /\ DurationKnown
    /\ Len(timedLyrics) = 3
    /\ timedLyrics[2].startTime = Seconds(2)
    /\ timedLyrics[3].startTime = Seconds(4)

\* The even division of the lines over d.
EvenlyDivided(seq, lines, d) ==
    /\ Len(seq) = Len(lines)
    /\ \A i \in 1..Len(lines) :
           /\ seq[i].text = lines[i]
           /\ seq[i].startTime * Len(lines) = (i - 1) * d

\* Lyrics without timestamps wait for the duration of a source that has one.
UpgradePending ==
    /\ mounted
    /\ PlainOf[lyrics]
    /\ audioReadyState = 0
    /\ IsFinite(DurationOf(audioUrl))

\* The wait is over: the sequence is the even division, or the lyrics, the
\* source or the component it was waiting for are gone.
UpgradeDone ==
    \/ ~mounted
    \/ ~PlainOf[lyrics]
    \/ ~IsFinite(DurationOf(audioUrl))
    \/ /\ DurationKnown
       /\ EvenlyDivided(timedLyrics, LinesOf[lyrics], DurationOf(audioUrl).v)

\* The audio element reports the metadata of the source it was given.
FairSpec == Spec /\ WF_vars(LoadedMetadata)

\* C9: lyrics without timestamps parsed while the duration is unknown or not
\* finite have every startTime 0; once the metadata of a source with a finite
\* duration is reported the sequence becomes the even division; a parse has
\* at most one listener waiting, and none is left once the metadata is loaded.
C9_PlaceholderThenUpgrade ==
    /\ [](mounted /\ PlainOf[lyrics] /\ ~DurationKnown
            => timedLyrics = Placeholder(LinesOf[lyrics]))
    /\ [](Len(metadataListeners) <= 1)
    /\ [](audioReadyState >= 1 => metadataListeners = <<>>)
    /\ (UpgradePending ~> UpgradeDone)

\* C9 witness: two lines that were placeholders, upgraded by the metadata.
C9_Witness ==
    /\ lyrics = PlainTwo
    /\ DurationKnown
    /\ parseCleanup = <<LinesOf[PlainTwo]>>
    /\ metadataListeners = <<>>
    /\ timedLyrics[2].startTime = Seconds(3)

\* C10: a listener that waits for the metadata belongs to the current lyrics
\* (one left by an earlier parse has been removed), none is left after the
\* component is unmounted, at most one waits, and a metadata event replaces
\* the sequence only by timings of the lines of the current lyrics.
C10_StaleListenerRemoved ==
    /\ [](mounted => \A k \in 1..Len(metadataListeners) :
                         metadataListeners[k] = LinesOf[lyrics])
    /\ [](~mounted => metadataListeners = <<>>)
    /\ [](Len(metadataListeners) <= 1)
    /\ [][LoadedMetadata /\ timedLyrics' # timedLyrics
             => /\ Len(timedLyrics') = Len(LinesOf[lyrics])
                /\ \A i \in 1..Len(timedLyrics') :
                       timedLyrics'[i].text = LinesOf[lyrics][i]]_vars

\* C10 witness: the component was unmounted while a listener was waiting
\* for the metadata, and the listener is gone.
C10_Witness ==
    /\ ~mounted
    /\ PlainOf[lyrics]
    /\ audioReadyState = 0
    /\ timedLyrics = Placeholder(LinesOf[lyrics])
    /\ metadataListeners = <<>>

\* The lines each text of the parse specification was joined from.
KindsOf(t) ==
    LET raws == SplitLines(t)
    IN  [i \in 1..Len(raws) |-> CHOOSE k \in ParseLineKinds : k.raw = raws[i]]

\* The TimedLines the lines are to yield, in extraction order.
RECURSIVE ExtractionOf(_)
ExtractionOf(ks) ==
    IF ks = <<>> THEN <<>>
    ELSE ExtractionOf(SubSeq(ks, 1, Len(ks) - 1)) \o ks[Len(ks)].entries

\* e ordered by startTime, equal start times in the order of e.
StableOrder(e) ==
    LET Before(q, r) ==
            \/ e[q].startTime < e[r].startTime
            \/ e[q].startTime = e[r].startTime /\ q < r
        Rank(r) == 1 + Cardinality({q \in 1..Len(e) : Before(q, r)})
    IN  [p \in 1..Len(e) |-> e[CHOOSE r \in 1..Len(e) : Rank(r) = p]]

ExpectedOf(t) == StableOrder(ExtractionOf(KindsOf(t)))

\* The raw text of the lines that are not blank.
RawLines(ks) ==
    LET kept == SelectSeq(ks, LAMBDA k : k # BlankLine)
    IN  [i \in 1..Len(kept) |-> kept[i].raw]

\* No line of the text carries a well-formed timestamp, and one is not blank.
Untimed(ks) ==
    /\ \A i \in 1..Len(ks) : ks[i] \in {MalformedLine, PlainLine, BlankLine}
    /\ \E i \in 1..Len(ks) : ks[i] # BlankLine

\* C11: a line whose bracket is not a timestamp yields no TimedLine of its
\* own when another line is timestamped; when no line is timestamped the
\* sequence is every non-empty line with its text as given, timed by even
\* division once the duration is known and at 0 before.
C11_MalformedFallsBack ==
    mounted =>
        LET ks == KindsOf(lyrics)
        IN  /\ ExtractionOf(ks) # <<>>
                 => \A i \in 1..Len(timedLyrics) :
                        timedLyrics[i].text # MalformedLine.raw
            /\ Untimed(ks) /\ DurationKnown
                 => EvenlyDivided(timedLyrics, RawLines(ks), DurationOf(audioUrl).v)
            /\ Untimed(ks) /\ ~DurationKnown
                 => timedLyrics = Placeholder(RawLines(ks))

\* C11 witness: a malformed line and a plain line, timed over six seconds.
C11_Witness ==
    /\ mounted
    /\ lyrics = TextOfKinds(<<MalformedLine, PlainLine>>)
    /\ DurationKnown
    /\ Len(timedLyrics) = 2
    /\ timedLyrics[1] = [text |-> MalformedLine.raw, startTime |-> 0]
    /\ timedLyrics[2] = [text |-> PlainLine.raw, startTime |-> Seconds(3)]

\* C12: for a text with a timestamp the sequence has one TimedLine per
\* timestamp, a line with k timestamps giving k TimedLines with its stripped
\* text and a line without timestamp none, in order of startTime, equal
\* start times in extraction order.
C12_OneLinePerTimestamp ==
    mounted =>
        LET expected == ExpectedOf(lyrics)
        IN  expected # <<>>
              => /\ Len(timedLyrics) = Len(ExtractionOf(KindsOf(lyrics)))
                 /\ \A i \in 1..Len(timedLyrics) :
                        timedLyrics[i].text = expected[i].text
                 /\ \A i, j \in 1..Len(timedLyrics) :
                        i < j => timedLyrics[i].startTime <= timedLyrics[j].startTime

\* C12 witness: a line with two timestamps, the first equal to the timestamp
\* of the line after it.
C12_Witness ==
    /\ mounted
    /\ lyrics = TextOfKinds(<<MultiCueLine, PlainLine, ExampleLineB>>)
    /\ Len(timedLyrics) = 3
    /\ timedLyrics[1].text = <<"D">>
    /\ timedLyrics[2].text = <<"D">>
    /\ timedLyrics[3].text = <<"B">>
    /\ timedLyrics[2].startTime = timedLyrics[3].startTime

\* C13: the startTime of a timestamp [MM:SS.f] is MM*60 + SS + f/100 for two
\* digits of f and MM*60 + SS + f/1000 for three; '[00:15.32] A' and
\* '[00:17.81] B' give (A, 15.32) and (B, 17.81).
C13_StartTimeOfTimestamp ==
    mounted =>
        LET expected == ExpectedOf(lyrics)
        IN  /\ expected # <<>> => Len(timedLyrics) = Len(expected)
            /\ Len(timedLyrics) = Len(expected)
                 => \A i \in 1..Len(timedLyrics) :
                        timedLyrics[i].startTime = expected[i].startTime
            /\ lyrics = TextOfKinds(<<ExampleLineA, ExampleLineB>>)
                 => timedLyrics =
                        <<[text |-> <<"A">>, startTime |-> Millis(15320)],
                          [text |-> <<"B">>, startTime |-> Millis(17810)]>>

\* C13 witness: the example and a timestamp of three digits.
C13_Witness ==
    /\ mounted
    /\ lyrics = TextOfKinds(<<ThousandthsLine, ExampleLineA, ExampleLineB>>)
    /\ Len(timedLyrics) = 3
    /\ timedLyrics[1].startTime = Millis(15320)
    /\ timedLyrics[2].startTime = Millis(17810)
    /\ timedLyrics[3].startTime = Seconds(62) + Millis(5)

\* What getMarqueeDuration returns in the current state.
MarqueeDuration ==
    GetMarqueeDuration(currentLineIndex, timedLyrics,
                       AudioDuration(audioReadyState, audioUrl))

\* The audio element reports a duration (NaN and 0 count as none).
MarqueeDurationKnown ==
    LET d == AudioDuration(audioReadyState, audioUrl)
    IN  d.kind = "Infinity" \/ (d.kind = "num" /\ d.v # 0)

\* C14: getMarqueeDuration returns 0 when activeIndex < 0 or the sequence is
\* empty; else the distance to the next line when there is one; else the
\* audio duration minus the start of the current line when the duration is
\* known; else 5 seconds.
C14_MarqueeDurationCases ==
    mounted =>
        LET n == Len(timedLyrics)
            i == currentLineIndex
            d == AudioDuration(audioReadyState, audioUrl)
        IN  IF i < 0 \/ n = 0 THEN MarqueeDuration = Num(0)
            ELSE IF i + 1 < n
            THEN MarqueeDuration.kind = "num"
                 /\ MarqueeDuration.v + timedLyrics[i + 1].startTime
                        = timedLyrics[i + 2].startTime
            ELSE IF MarqueeDurationKnown
            THEN /\ i < n
                 /\ MarqueeDuration.kind = d.kind
                 /\ d.kind = "num"
                      => MarqueeDuration.v + timedLyrics[i + 1].startTime = d.v
            ELSE MarqueeDuration = Num(Seconds(5))

\* C15: getMarqueeDuration never returns a negative value.
C15_MarqueeDurationNotNegative ==
    mounted /\ MarqueeDuration.kind = "num" => MarqueeDuration.v >= 0

\* C16: the playback state starts 'idle' and returns to 'idle' on a change
\* of track; 'play' sets it to 'playing', 'ended' to 'ended', 'pause' to
\* 'idle' exactly at position 0 and otherwise leaves it as it is; nothing
\* else changes it.
C16_PlaybackStateTransitions ==
    /\ playbackState = "idle"
    /\ [][(\E url \in Urls : SetAudioUrl(url)) => playbackState' = "idle"]_vars
    /\ [][Play => playbackState' = "playing"]_vars
    /\ [][Ended => playbackState' = "ended"]_vars
    /\ [][Pause /\ audioCurrentTime = 0 => playbackState' = "idle"]_vars
    /\ [][Pause /\ audioCurrentTime # 0 => playbackState' = playbackState]_vars
    /\ [][playbackState' # playbackState
            => Play \/ Pause \/ Ended \/ \E url \in Urls : SetAudioUrl(url)]_vars

\* C16 witness: a pause away from position 0 has left the state 'playing'.
C16_Witness ==
    /\ lastEvent = "pause"
    /\ audioCurrentTime # 0
    /\ playbackState = "playing"

\* C17: the index a tick leaves is the one it would leave from any other
\* previous index; when the clock is before the offset-adjusted start of
\* the line that was active, the tick moves the index back to a line that
\* has started, or to -1.
C17_TickIgnoresPreviousIndex ==
    [][(\E f \in frames : Tick(f))
          => /\ \A prev \in -1..Len(timedLyrics) :
                    IndexUpdater(prev, NewIndex(timedLyrics, timingOffset,
                                                audioCurrentTime))
                        = currentLineIndex'
             /\ (/\ currentLineIndex >= 0
                 /\ currentLineIndex < Len(timedLyrics)
                 /\ audioCurrentTime
                        < timedLyrics[currentLineIndex + 1].startTime + timingOffset)
                  => /\ currentLineIndex' < currentLineIndex
                     /\ \/ currentLineIndex' = -1
                        \/ audioCurrentTime
                               >= timedLyrics[currentLineIndex' + 1].startTime
                                      + timingOffset]_vars

\* C17 witness: lines at 0, 2 and 4 seconds, offset -0.3; a tick has resolved
\* the third line, the clock was moved back to 1 second and the next tick
\* is pending.
C17_Witness ==
    /\ lyrics = PlainThree
    /\ DurationKnown
    /\ timingOffset = Millis(-300)
    /\ timedLyrics[2].startTime = Seconds(2)
    /\ currentLineIndex = 2
    /\ audioCurrentTime = Seconds(1)
    /\ frames # {}

\* C19: no frame callback is pending after the component is unmounted or
\* after the animation effect was cleaned up (a change of the sequence or
\* of the offset, the unmount); a pending callback is one of the current
\* effect instance; nothing updates activeIndex after the unmount.
C19_LoopCancelledOnTeardown ==
    /\ [](~mounted => frames = {})
    /\ [](\A f \in frames :
              /\ loopListeners.attached
              /\ f.lines = timedLyrics
              /\ f.offset = timingOffset)
    /\ [][(\/ \E o \in Offsets : SetTimingOffset(o)
           \/ timedLyrics' # timedLyrics
           \/ Unmount) => frames' = {}]_vars
    /\ [][~mounted => currentLineIndex' = currentLineIndex]_vars

\* C19 witness: the component was unmounted during playback, after the loop
\* had requested a frame, and no callback is pending.
C19_Witness ==
    /\ ~mounted
    /\ ~audioPaused
    /\ lastEvent = "play"
    /\ animationFrameRef # 0
    /\ timedLyrics # <<>>
    /\ frames = {}

\* C18: a tick that computes the index that is already active changes
\* nothing of the component but the frame it requests; scrollTo is called
\* and the marquee line is started only in a step that changes activeIndex
\* or the marquee mode.
C18_NoEffectWithoutIndexChange ==
    /\ [][(\E f \in frames : Tick(f))
             /\ NewIndex(timedLyrics, timingOffset, audioCurrentTime) = currentLineIndex
            => /\ currentLineIndex' = currentLineIndex
               /\ ~scrollCalled'
               /\ ~marqueeStarted'
               /\ UNCHANGED <<timedLyrics, playbackState, isMarqueeMode>>]_vars
    /\ [][scrollCalled' \/ marqueeStarted'
            => \/ currentLineIndex' # currentLineIndex
               \/ isMarqueeMode' # isMarqueeMode]_vars

\* C18 witness: the list has been scrolled to the second line by the tick
\* that made it active, and the next tick, which computes the same index,
\* is pending.
C18_Witness ==
    /\ ~isMarqueeMode
    /\ scrollCalled
    /\ currentLineIndex = 1
    /\ frames # {}
    /\ NewIndex(timedLyrics, timingOffset, audioCurrentTime) = currentLineIndex

\* C20: findLyrics sends at most two requests, the first to the primary
\* model and the second to the fallback model; the second is sent exactly
\* when the response to the first fails isLrcFormat; when the second
\* response fails too, or a request is rejected, the error thrown tells
\* the user to enter the lyrics manually.
C20_AtMostOneRetry ==
    /\ [](Len(findCall.requests) <= 2)
    /\ [](Len(findCall.requests) >= 1 => findCall.requests[1] = PrimaryModel)
    /\ [](Len(findCall.requests) = 2
            => /\ findCall.requests[2] = FallbackModel
               /\ ~IsLrcFormat(findCall.initialText))
    /\ [](apiKey /\ findCall.pc # "idle" => Len(findCall.requests) >= 1)
    /\ [](findCall.pc = "thrown" /\ Len(findCall.requests) >= 1
            => TellsToEnterManually(findCall.error))
    /\ [][\A text \in ResponseTexts :
              Responds(text) /\ Len(findCall.requests) = 1
                => Len(findCall'.requests) = (IF IsLrcFormat(text) THEN 1 ELSE 2)]_vars

\* C20 witness: the primary and the fallback model have both answered with a
\* text that is not LRC, and the call has ended with the error.
C20_Witness ==
    /\ findCall.pc = "thrown"
    /\ findCall.requests = <<PrimaryModel, FallbackModel>>
    /\ findCall.initialText.defined
    /\ findCall.fallbackText.defined
    /\ findCall.fallbackText.chars # <<>>
    /\ TellsToEnterManually(findCall.error)

\* The lines of a response text (as isLrcFormat splits it) that start with
\* a timestamp.
StampedLines(text) ==
    LET lines == SplitLines(Trim(text.chars))
    IN  {i \in 1..Len(lines) : MatchLenAt(Trim(lines[i]), 1) > 0}

\* At least half of the lines of the text start with a timestamp.
AtLeastHalfStamped(text) ==
    /\ text.defined
    /\ text.chars # <<>>
    /\ 2 * Cardinality(StampedLines(text)) >= Len(SplitLines(Trim(text.chars)))

\* C23: isLrcFormat accepts every text in which at least half of the lines
\* start with a timestamp: findLyrics sends no fallback request after such
\* a response.
C23_AcceptsAtLeastHalf ==
    /\ AtLeastHalfStamped(findCall.initialText) => IsLrcFormat(findCall.initialText)
    /\ AtLeastHalfStamped(findCall.initialText) => Len(findCall.requests) <= 1

\* C28: a text isLrcFormat accepts has a line with a well-formed timestamp;
\* the karaoke screen parses it through the timestamped branch, before and
\* after the metadata is loaded: the sequence is the timestamps' TimedLines
\* in order of startTime, it is not empty, and no even division is pending.
C28_AcceptedTextIsTimestamped ==
    mounted /\ IsLrcFormat(Text(lyrics)) =>
        LET ks == KindsOf(lyrics)
        IN  /\ \E i \in 1..Len(ks) : ks[i].entries # <<>>
            /\ timedLyrics # <<>>
            /\ timedLyrics = ExpectedOf(lyrics)
            /\ \A i, j \in 1..Len(timedLyrics) :
                   i < j => timedLyrics[i].startTime <= timedLyrics[j].startTime
            /\ metadataListeners = <<>>

\* C28 witness: an accepted text with a line without timestamp, after the
\* metadata is loaded.
C28_Witness ==
    /\ mounted
    /\ audioReadyState = 1
    /\ lyrics = TextOfKinds(<<ExampleLineB, PlainLine, ExampleLineA>>)
    /\ IsLrcFormat(Text(lyrics))
    /\ Len(timedLyrics) = 2
    /\ timedLyrics[1].text = <<"A">>

\* More than half of the non-empty lines of the text start with a timestamp.
MostNonEmptyLinesStamped(text) ==
    LET lines == SplitLines(text.chars)
        nonEmpty == {i \in 1..Len(lines) : Trim(lines[i]) # <<>>}
        stamped == {i \in nonEmpty : MatchLenAt(Trim(lines[i]), 1) > 0}
    IN  text.defined /\ 2 * Cardinality(stamped) > Cardinality(nonEmpty)

Outcomes(c) ==
    {CallRejected(c.call)} \cup {CallResponded(c.call, text) : text \in SetupResponses}

\* C22: a step in which an attempt fails (its request is rejected, or the
\* fallback response is invalid too, or API_KEY is missing) leaves the
\* lyrics and every other state of App as they are; on the setup screen
\* that made the attempt it sets the error message and isLoadingLyrics is
\* false.  The step that starts an attempt leaves the lyrics as well.
C22_FailureKeepsLyrics ==
    /\ [][\A c \in calls : \A after \in Outcomes(c) :
              after.pc = "thrown" /\ CallSettles(c, after)
                => /\ lyrics' = lyrics
                   /\ UNCHANGED <<audioUrl, timedLyrics, screen, fileName,
                                  songTitle, songArtist>>
                   /\ OwnerShown(c)
                        => /\ error' = after.error
                           /\ error' # NoError
                           /\ ~isLoadingLyrics']_vars
    /\ [][ClickFindLyrics
            => /\ lyrics' = lyrics
               /\ ~apiKey => error' = ErrorNoApiKey /\ ~isLoadingLyrics']_vars

\* C22 witness: lyrics were typed, an attempt was made and has failed.
C22_Witness ==
    /\ screen = "setup"
    /\ lyrics = PlainTwo
    /\ error = ErrorFailed
    /\ ~isLoadingLyrics
    /\ calls = {}

\* C27: a step in which a call of handleFindLyrics ends and the lyrics
\* change stores the lyrics for the file that was chosen when the call
\* was made.
C27_ResponseStoredForItsSong ==
    [][\A c \in calls :
           calls' = calls \ {c} /\ lyrics' # lyrics => c.file = fileName']_vars

\* C29: while the karaoke screen is shown the audio URL is not null and the
\* lyrics are not empty, and the screen changes from 'setup' to 'karaoke'
\* only in a state where both hold.
C29_KaraokeNeedsAudioAndLyrics ==
    /\ [](screen = "karaoke" => audioUrl # NoUrl /\ lyrics # <<>> /\ mounted)
    /\ [](screen = "setup" => ~mounted)
    /\ [][screen = "setup" /\ screen' = "karaoke"
            => audioUrl # NoUrl /\ lyrics # <<>>]_vars

\* C29 witness: karaoke was started with typed lyrics while a request was
\* in flight, and the response has replaced the lyrics on the karaoke screen.
C29_Witness ==
    /\ screen = "karaoke"
    /\ mounted
    /\ isLoadingLyrics
    /\ calls = {}
    /\ lyrics = LrcTwo
    /\ Len(timedLyrics) = 2

\* C30: at most one call of handleFindLyrics awaits findLyrics, and none was
\* made with an empty title.
C30_OneRequestInFlight ==
    /\ Cardinality(calls) <= 1
    /\ \A c \in calls : c.title # <<>>

\* C24: while the audio is playing ('play' was dispatched, no 'pause' or
\* 'ended' since, the element is not paused) and the sequence is not empty,
\* a frame callback of the loop is pending.
C24_TickPendingWhilePlaying ==
    mounted /\ lastEvent = "play" /\ ~audioPaused /\ timedLyrics # <<>>
        => frames # {}

C25_ListenersOnMountedElement ==
    /\ [](mounted /\ ~isFullscreen
             => /\ StateHears
                /\ timedLyrics # <<>> => LoopHears)
    /\ [][mounted /\ audioPaused /\ ~audioPaused'
             => /\ playbackState' = "playing"
                /\ timedLyrics # <<>> => frames' # {}]_vars

====
